---- MODULE Spec2Model ----
(***************************************************************************)
(* glyph-dump: dumps the glyphs of a font file as square PNG images, one   *)
(* per code point.  The model follows src/main.rs: the command line is     *)
(* parsed (UnicodeRange / UnicodeValue from_str), the font is read and     *)
(* parsed, the candidate code points are collected, the output directory   *)
(* is created, and create_glyph_img runs for every candidate, either in    *)
(* order or (feature "parallel") in any order.                             *)
(*                                                                         *)
(* Text is a sequence of one-character strings.  An Option is a sequence   *)
(* of length 0 (None) or 1 (Some).  Glyph coordinates at unit scale are    *)
(* integers counting 1/UnitDen of a pixel.                                 *)
(***************************************************************************)
EXTENDS Integers, Sequences, FiniteSets, TLC

\* ------------------------------------------------------------------ bounds
\* How many times main is run against the same output directory.
MaxRuns == 2
\* The larger of the two --img-size values tried.
MaxImgSize == 8
\* Unit-scale glyph coordinates count 1/UnitDen of a pixel.
UnitDen == 2

\* ------------------------------------------------------------ number ranges
U8 == 256
U16 == 65536
I32Max == 2147483647
I32Min == -I32Max - 1
\* Unicode: the surrogate gap and the last scalar value.
SurrogateLo == \hD800
SurrogateHi == \hDFFF
MaxScalar == \h10FFFF

None == << >>
Some(v) == << v >>
IsSome(o) == Len(o) = 1
Unwrap(o) == o[1]

Max(a, b) == IF a >= b THEN a ELSE b
Abs(a) == IF a < 0 THEN -a ELSE a
\* ceil(a / b) for b > 0
CeilDiv(a, b) == -((-a) \div b)

IsScalar(v) == v >= 0 /\ v <= MaxScalar /\ ~(v >= SurrogateLo /\ v <= SurrogateHi)

\* ------------------------------------------------------------------ hex text
HexDigits == << "0", "1", "2", "3", "4", "5", "6", "7",
                "8", "9", "a", "b", "c", "d", "e", "f" >>

IsHexDigit(c) == \E i \in 1..16 : HexDigits[i] = c

HexValue(c) == (CHOOSE i \in 1..16 : HexDigits[i] = c) - 1

\* format!("{:02x}", b) for a byte b
FormatByte(b) == << HexDigits[(b \div 16) + 1], HexDigits[(b % 16) + 1] >>

\* char::encode_utf16 into a zeroed [u16; 2]: one unit for the BMP, a
\* surrogate pair above it; the second unit stays 0 for the BMP.
EncodeUtf16(code) ==
    IF code < U16
    THEN << code, 0 >>
    ELSE LET c == code - U16
         IN << (SurrogateLo + ((c \div 1024) % U16)) % U16,
               \hDC00 + (c % 1024) >>

\* The order in which the two code units are pushed: for n in (0..2).rev()
UnitOrder == << 2, 1 >>

convert_to_be_hex_string(unicode) ==
    LET encoded_utf16 == EncodeUtf16(unicode)
        be_bytes == << encoded_utf16[UnitOrder[1]] \div U8,
                       encoded_utf16[UnitOrder[1]] % U8,
                       encoded_utf16[UnitOrder[2]] \div U8,
                       encoded_utf16[UnitOrder[2]] % U8 >>
    IN FormatByte(be_bytes[1]) \o FormatByte(be_bytes[2])
       \o FormatByte(be_bytes[3]) \o FormatByte(be_bytes[4])

\* &hex_name[2..8] followed by "_image.png"
ImageFileName(hex_name) == SubSeq(hex_name, 3, 8) \o << "_image.png" >>

\* ------------------------------------------------------- UnicodeValue parsing
\* str::replace(pat, "") for a two-character pattern
RECURSIVE Remove2(_, _, _)
Remove2(s, a, b) ==
    IF Len(s) < 2 THEN s
    ELSE IF s[1] = a /\ s[2] = b
         THEN Remove2(SubSeq(s, 3, Len(s)), a, b)
         ELSE << s[1] >> \o Remove2(Tail(s), a, b)

\* str::split("..")
RECURSIVE SplitDots(_, _)
SplitDots(s, cur) ==
    IF Len(s) < 2 THEN << cur \o s >>
    ELSE IF s[1] = "." /\ s[2] = "."
         THEN << cur >> \o SplitDots(SubSeq(s, 3, Len(s)), << >>)
         ELSE SplitDots(Tail(s), Append(cur, s[1]))

\* HexString::from_string: an even number of hex digits
HexStringOk(s) == Len(s) % 2 = 0 /\ \A i \in 1..Len(s) : IsHexDigit(s[i])

\* HexString::as_bytes
HexBytes(s) == [ i \in 1..(Len(s) \div 2) |->
                   16 * HexValue(s[2 * i - 1]) + HexValue(s[2 * i]) ]

\* u32::from_be_bytes of the bytes copied to the end of a zeroed [u8; 4]
RECURSIVE FromBeBytes(_)
FromBeBytes(bytes) ==
    IF Len(bytes) = 0 THEN 0
    ELSE U8 * FromBeBytes(SubSeq(bytes, 1, Len(bytes) - 1)) + bytes[Len(bytes)]

\* UnicodeValue::from_str: the set of outcomes.  A value that is no scalar
\* value reaches char::from_u32_unchecked, which is undefined behaviour: the
\* build either carries the value on as a char or stops on the debug
\* assertion of the unchecked conversion.
UnicodeValueFromStr(s) ==
    LET the_arg == Remove2(Remove2(s, "0", "x"), "U", "+")
    IN IF ~HexStringOk(the_arg)
       THEN { [tag |-> "err", character |-> 0] }
       ELSE LET the_arg_bytes == HexBytes(the_arg)
            IN IF Len(the_arg_bytes) > 4
               THEN { [tag |-> "panic", character |-> 0] }
               ELSE LET val == FromBeBytes(the_arg_bytes)
                    IN IF IsScalar(val)
                       THEN { [tag |-> "ok", character |-> val] }
                       ELSE { [tag |-> "ok", character |-> val],
                              [tag |-> "panic", character |-> 0] }

\* UnicodeRange::from_str: the set of outcomes
UnicodeRangeFromStr(s) ==
    LET pieces == SplitDots(s, << >>)
    IN IF Len(pieces) # 2
       THEN { [tag |-> "err", start |-> 0, end |-> 0] }
       ELSE { IF a.tag # "ok" THEN [tag |-> a.tag, start |-> 0, end |-> 0]
              ELSE IF b.tag # "ok" THEN [tag |-> b.tag, start |-> 0, end |-> 0]
              ELSE [tag |-> "ok", start |-> a.character, end |-> b.character] :
              a \in UnicodeValueFromStr(pieces[1]),
              b \in UnicodeValueFromStr(pieces[2]) }

\* Step::forward for char: the next scalar value, stepping over the
\* surrogate gap when it is entered from below.
CharForward(c) ==
    IF c < SurrogateLo /\ SurrogateLo <= c + 1 THEN c + 1 + \h800 ELSE c + 1

\* (start..=end).collect() over char
RECURSIVE CharRangeInclusive(_, _)
CharRangeInclusive(start, end) ==
    IF start > end THEN << >>
    ELSE IF start = end THEN << start >>
    ELSE << start >> \o CharRangeInclusive(CharForward(start), end)

\* ------------------------------------------------------------ default filter
\* The walk over '\u{0000}'..='\u{10FFFF}' is sampled: these scalar values,
\* in ascending order, stand for the whole range.
DefaultScan == << \h0000, \h0020, \h0041, \hD7FF, \hE000, \hFFFF,
                 \h10000, \h10100, \h10FFFF >>

\* The category predicate of the filter (is_alphabetic || ... || is_symbol)
\* on the sampled values: U+0041 is a letter, U+10000 a Linear B letter,
\* U+10100 Aegean punctuation; controls, the space, unassigned values,
\* private use and noncharacters are rejected.
CategoryKept(c) == c \in { \h0041, \h10000, \h10100 }

\* ---------------------------------------------------------------------- font
\* A glyph: its id and its outline's bounding box at scale 1.0 (None for a
\* glyph without outline), coordinates in 1/UnitDen.
Box(x0, y0, x1, y1) == Some([min |-> [x |-> x0, y |-> y0], max |-> [x |-> x1, y |-> y1]])

NotDefGlyph == [id |-> 0, bbox |-> Box(0, -2, 1, 0)]

\* Font::glyph(unicode) in two sample fonts.  Font 1 draws U+10000 and
\* U+10100 differently; it has a glyph without outline (U+0042), one taller
\* than any image size tried (U+0043) and one whose outline is a single
\* point (U+D7FF).  Font 2 has only two glyphs, for U+0042 and U+10000.
FontGlyph(f, unicode) ==
    IF f = 1
    THEN CASE unicode = \h0041  -> [id |-> 1, bbox |-> Box(0, -3, 2, 0)]
           [] unicode = \h0042  -> [id |-> 2, bbox |-> None]
           [] unicode = \h0043  -> [id |-> 3, bbox |-> Box(0, -10 * MaxImgSize, 2, 0)]
           [] unicode = \h10000 -> [id |-> 4, bbox |-> Box(0, -1, 4, 0)]
           [] unicode = \h10100 -> [id |-> 5, bbox |-> Box(1, -2, 3, 0)]
           [] unicode = \hD7FF  -> [id |-> 6, bbox |-> Box(1, -1, 1, -1)]
           [] unicode = \hE000  -> [id |-> 7, bbox |-> Box(-1, -3, 2, 1)]
           [] OTHER -> NotDefGlyph
    ELSE CASE unicode = \h0042  -> [id |-> 1, bbox |-> Box(0, -2, 5, 0)]
           [] unicode = \h10000 -> [id |-> 2, bbox |-> Box(0, -4, 1, 0)]
           [] OTHER -> NotDefGlyph

Fonts == { 1, 2 }

\* ----------------------------------------------------------------- get_scale
\* A Scale: the f32 factor is a whole number, +infinity or NaN.
Finite(n) == [kind |-> "finite", val |-> n]
Infinite == [kind |-> "inf", val |-> 0]
NaN == [kind |-> "nan", val |-> 0]

\* ((img_size as f32) / max_dimension).floor(), max_dimension in 1/UnitDen
ScaleFactor(img_size, max_dimension) ==
    IF max_dimension = 0
    THEN IF img_size = 0 THEN NaN ELSE Infinite
    ELSE Finite((img_size * UnitDen) \div max_dimension)

get_scale(glyph, img_size) ==
    IF ~IsSome(glyph.bbox)
    THEN [tag |-> "err", scale |-> NaN]
    ELSE LET one_to_one_scaling == Unwrap(glyph.bbox)
             height == one_to_one_scaling.max.y - one_to_one_scaling.min.y
             width == one_to_one_scaling.max.x - one_to_one_scaling.min.x
             max_dimension == Max(Abs(height), Abs(width))
         IN [tag |-> "ok", scale |-> ScaleFactor(img_size, max_dimension)]

\* ------------------------------------------------------------- rasterization
\* f32 -> i32 of a scaled coordinate, rounded down or up; the cast
\* saturates and sends NaN to 0.
Saturate(v) == IF v > I32Max THEN I32Max ELSE IF v < I32Min THEN I32Min ELSE v

ScaleCoord(scale, c, up) ==
    CASE scale.kind = "finite" ->
           Saturate(IF up THEN CeilDiv(scale.val * c, UnitDen)
                          ELSE (scale.val * c) \div UnitDen)
      [] scale.kind = "inf" ->
           IF c = 0 THEN 0 ELSE IF c > 0 THEN I32Max ELSE I32Min
      [] OTHER -> 0

\* glyph.scaled(scale).positioned(point(0.0, 0.0)).pixel_bounding_box()
PixelBoundingBox(glyph, scale) ==
    IF ~IsSome(glyph.bbox) THEN None
    ELSE LET b == Unwrap(glyph.bbox)
         IN Some([min |-> [x |-> ScaleCoord(scale, b.min.x, FALSE),
                           y |-> ScaleCoord(scale, b.min.y, FALSE)],
                  max |-> [x |-> ScaleCoord(scale, b.max.x, TRUE),
                           y |-> ScaleCoord(scale, b.max.y, TRUE)]])

\* GlyphDimensions for Rect<i32>.  pixel_bounding_box rounds min down and max
\* up, so max.x - min.x is never negative and the cast to u32 keeps it.
get_glyph_height(rect) == Abs(rect.min.y - rect.max.y)

get_glyph_width(rect) == rect.max.x - rect.min.x

\* The check for .notdef left out
IsNotDefNever(glyph) == FALSE

\* glyph.id().0 == 0
IsNotDef(glyph) == glyph.id = 0

\* std::cmp::max(glyph_height, glyph_width)
MaxSz(glyph_height, glyph_width) == Max(glyph_height, glyph_width)

\* The image given the box's own width and height
NewImageOfBox(max_sz, glyph_height, glyph_width) ==
    [width |-> glyph_width, height |-> glyph_height]

\* DynamicImage::new_rgba8(max_sz, max_sz)
NewImage(max_sz, glyph_height, glyph_width) == [width |-> max_sz, height |-> max_sz]

XOffset(max_sz, glyph_height, glyph_width) == (max_sz - glyph_width) \div 2

\* The vertical offset computed from the width
YOffsetFromWidth(max_sz, glyph_height, glyph_width) == (max_sz - glyph_width) \div 2

YOffset(max_sz, glyph_height, glyph_width) == (max_sz - glyph_height) \div 2

\* The pixels positioned_glyph.draw hands to the closure: every pixel of
\* the bounding box, relative to its corner.
DrawnPixels(glyph_height, glyph_width) ==
    { [x |-> x, y |-> y] : x \in 0..(glyph_width - 1), y \in 0..(glyph_height - 1) }

\* put_pixel panics outside the image
InImage(image, p) == p.x >= 0 /\ p.x < image.width /\ p.y >= 0 /\ p.y < image.height

\* The path of the image of a code point under base_dir
ImagePath(base_dir, hex_name) == [dir |-> base_dir, file |-> ImageFileName(hex_name)]

Skipped(unicode, glyph, stages, ret) ==
    [unicode |-> unicode, glyph_id |-> glyph.id, stages |-> stages, ret |-> ret,
     scale |-> None, bounding_box |-> None, image |-> None, writes |-> {},
     hex_name |-> None, image_path |-> None, file |-> None]

\* The value of F at v, with v computed once
Bind(v, F(_)) == CHOOSE r \in { F(x) : x \in { v } } : TRUE

\* create_glyph_img from the pixel bounding box on: the image, the drawing,
\* the name and the save
DrawAndSave(unicode, glyph, scale, bounding_box, output_color, base_dir, save_ok) ==
    LET glyph_height == get_glyph_height(bounding_box)
        glyph_width == get_glyph_width(bounding_box)
        max_sz == MaxSz(glyph_height, glyph_width)
        image == NewImage(max_sz, glyph_height, glyph_width)
        x_offset == XOffset(max_sz, glyph_height, glyph_width)
        y_offset == YOffset(max_sz, glyph_height, glyph_width)
        hex_name == convert_to_be_hex_string(unicode)
        Drawn(writes) ==
            [Skipped(unicode, glyph, << "glyph", "get_scale", "positioned", "draw" >>,
                     "panic")
               EXCEPT !.scale = Some(scale),
                      !.bounding_box = Some(bounding_box),
                      !.image = Some(image),
                      !.writes = writes]
        Saved(writes) ==
            [Drawn(writes)
               EXCEPT !.stages = << "glyph", "get_scale", "positioned", "draw",
                                    "hex", "save" >>,
                      !.hex_name = Some(hex_name),
                      !.image_path = Some(ImagePath(base_dir, hex_name)),
                      !.ret = IF save_ok THEN "ok" ELSE "ImageError",
                      !.file = IF save_ok
                               THEN Some([width |-> image.width,
                                          height |-> image.height,
                                          color |-> output_color,
                                          pixels |-> writes,
                                          glyph_id |-> glyph.id])
                               ELSE None]
    IN Bind({ [x |-> p.x + x_offset, y |-> p.y + y_offset] :
              p \in DrawnPixels(glyph_height, glyph_width) },
            LAMBDA writes :
              IF \E p \in writes : ~InImage(image, p)
              THEN Drawn(writes)
              ELSE Saved(writes))

\* create_glyph_img: what one call does, as a record.  stages lists the
\* calls made; ret is "ok" or the error returned or "panic"; file is the
\* image saved at image_path.  save_ok is whether image.save succeeds.
create_glyph_img(f, unicode, img_size, output_color, base_dir, save_ok) ==
    Bind(FontGlyph(f, unicode), LAMBDA glyph :
      IF IsNotDef(glyph)
      THEN Skipped(unicode, glyph, << "glyph" >>, "GlyphNotDefined")
      ELSE Bind(get_scale(glyph, img_size), LAMBDA scaled :
        IF scaled.tag # "ok"
        THEN Skipped(unicode, glyph, << "glyph", "get_scale" >>, "General")
        ELSE Bind(PixelBoundingBox(glyph, scaled.scale), LAMBDA pbb :
          IF ~IsSome(pbb)
          THEN [Skipped(unicode, glyph, << "glyph", "get_scale", "positioned" >>,
                        "FormattedMessage")
                  EXCEPT !.scale = Some(scaled.scale)]
          ELSE DrawAndSave(unicode, glyph, scaled.scale, Unwrap(pbb),
                           output_color, base_dir, save_ok))))

\* --------------------------------------------------------------------- inputs
FontFiles == { << "fonts", "a.ttf" >>, << "fonts", ".." >> }

\* Path::file_name: the last component, unless the path is empty or ends in ..
FileName(path) ==
    IF Len(path) = 0 \/ path[Len(path)] = ".." THEN None ELSE Some(path[Len(path)])

ImgSizes == { 2, MaxImgSize }

\* --unicode-range: absent, or one of these texts
RangeArgs ==
    { None,
      Some(<< "0", "x", "0", "0", "4", "1", ".", ".", "0", "x", "0", "0", "4", "3" >>),
      Some(<< "U", "+", "d", "7", "f", "f", ".", ".", "U", "+", "e", "0", "0", "0" >>),
      Some(<< "0", "x", "0", "0", "4", "3", ".", ".", "0", "x", "0", "0", "4", "1" >>),
      Some(<< "0", "x", "d", "8", "0", "0", ".", ".", "0", "x", "d", "8", "0", "1" >>),
      Some(<< "0", "x", "1", "0", "f", "f", "f", "f", ".", ".", "0", "x", "1", "1", "0", "0", "0", "0" >>),
      Some(<< "0", "x", "0", "0", "4", "1" >>),
      Some(<< "0", "x", "0", "4", "1", ".", ".", "0", "x", "0", "0", "4", "3" >>),
      Some(<< "0", "x", "0", "0", "0", "0", "0", "0", "0", "0", "4", "1", ".", ".", "0", "x", "0", "0", "4", "2" >>) }

\* The code points whose image.save may fail
IoFailSample == { \h0041, \h0042 }

\* ---------------------------------------------------------------------- state
VARIABLES
    arguments,              \* CliArgs: font_file, output_dir, color, img_size, unicode_range
    env,                    \* the file system's and the build's answers, fixed for the run
    pc,                     \* where main is
    run,                    \* which run of main this is
    exit_code,              \* None while main runs, then the process's exit code
    log,                    \* the steps main has taken in this run, in order
    font,                   \* the parsed font
    unicode_range,          \* the parsed --unicode-range
    valid_unicode_ranges,   \* the candidate code points
    base_dir,               \* output_dir/base_name
    dirs,                   \* the directories created
    files,                  \* the output directory: path -> image
    results,                \* per candidate index: what create_glyph_img did
    attempts,               \* per candidate index: how often it was called
    image_paths             \* the collected Ok values

vars == << arguments, env, pc, run, exit_code, log, font, unicode_range,
           valid_unicode_ranges, base_dir, dirs, files, results, attempts,
           image_paths >>

Init ==
    /\ arguments \in [font_file : FontFiles,
                      output_dir : { << "out" >> },
                      color : { << 255, 255, 255 >> },
                      img_size : ImgSizes,
                      unicode_range : RangeArgs]
    /\ env \in [read_ok : BOOLEAN, parse_ok : BOOLEAN, mkdir_ok : BOOLEAN,
                font : Fonts, io_fail : SUBSET IoFailSample, parallel : BOOLEAN]
    /\ pc = "parse_args"
    /\ run = 1
    /\ exit_code = None
    /\ log = << >>
    /\ font = None
    /\ unicode_range = None
    /\ valid_unicode_ranges = << >>
    /\ base_dir = None
    /\ dirs = {}
    /\ files = << >>
    /\ results = << >>
    /\ attempts = << >>
    /\ image_paths = << >>

\* main returns Err(e) (exit code 1), clap rejects an argument (2), or a panic (101)
Exit(code) ==
    /\ pc' = "exited"
    /\ exit_code' = Some(code)

\* A failure that is dropped instead of returned
PropagatesNever(ok) == FALSE

\* The ? operator: whether a step's failure ends main
Propagates(ok) == ~ok

\* CliArgs::parse(): the value parser of --unicode-range
ParseArgs ==
    /\ pc = "parse_args"
    /\ log' = Append(log, "parse_args")
    /\ IF ~IsSome(arguments.unicode_range)
       THEN /\ unicode_range' = None
            /\ pc' = "read_font"
            /\ UNCHANGED exit_code
       ELSE \E o \in UnicodeRangeFromStr(Unwrap(arguments.unicode_range)) :
              CASE o.tag = "ok" ->
                     /\ unicode_range' = Some([start |-> o.start, end |-> o.end])
                     /\ pc' = "read_font"
                     /\ UNCHANGED exit_code
                [] o.tag = "err" ->
                     /\ Exit(2)
                     /\ UNCHANGED unicode_range
                [] OTHER ->
                     /\ Exit(101)
                     /\ UNCHANGED unicode_range
    /\ UNCHANGED << arguments, env, run, font, valid_unicode_ranges, base_dir,
                    dirs, files, results, attempts, image_paths >>

\* std::fs::read(&arguments.font_file)?  A path without a file name is a
\* directory and cannot be read.
ReadFont ==
    /\ pc = "read_font"
    /\ log' = Append(log, "read_font")
    /\ IF Propagates(env.read_ok /\ IsSome(FileName(arguments.font_file)))
       THEN Exit(1)
       ELSE pc' = "parse_font" /\ UNCHANGED exit_code
    /\ UNCHANGED << arguments, env, run, font, unicode_range, valid_unicode_ranges,
                    base_dir, dirs, files, results, attempts, image_paths >>

\* Font::try_from_vec(font_data).ok_or_else(..)?
ParseFont ==
    /\ pc = "parse_font"
    /\ log' = Append(log, "parse_font")
    /\ IF Propagates(env.parse_ok)
       THEN Exit(1) /\ UNCHANGED font
       ELSE /\ font' = Some(env.font)
            /\ pc' = "select"
            /\ UNCHANGED exit_code
    /\ UNCHANGED << arguments, env, run, unicode_range, valid_unicode_ranges,
                    base_dir, dirs, files, results, attempts, image_paths >>

\* valid_unicode_ranges: the given range, or the filtered walk
SelectCodePoints ==
    /\ pc = "select"
    /\ log' = Append(log, "select")
    /\ valid_unicode_ranges' =
         IF IsSome(unicode_range)
         THEN CharRangeInclusive(Unwrap(unicode_range).start, Unwrap(unicode_range).end)
         ELSE SelectSeq(DefaultScan, CategoryKept)
    /\ pc' = "base_name"
    /\ UNCHANGED << arguments, env, run, exit_code, font, unicode_range, base_dir,
                    dirs, files, results, attempts, image_paths >>

\* get_base_name(&arguments.font_file)?, then base_dir = output_dir/base_name
GetBaseName ==
    /\ pc = "base_name"
    /\ log' = Append(log, "base_name")
    /\ LET base_name == FileName(arguments.font_file)
       IN IF Propagates(IsSome(base_name))
          THEN Exit(1) /\ UNCHANGED base_dir
          ELSE /\ base_dir' = Some(Append(arguments.output_dir, Unwrap(base_name)))
               /\ pc' = "create_dir"
               /\ UNCHANGED exit_code
    /\ UNCHANGED << arguments, env, run, font, unicode_range, valid_unicode_ranges,
                    dirs, files, results, attempts, image_paths >>

\* fs::create_dir_all(base_dir.as_path())?
\* The global rayon pool is built next (build_global().unwrap()): nothing has
\* built it before, so the call is taken to succeed.
CreateDirAll ==
    /\ pc = "create_dir"
    /\ log' = Append(log, "create_dir")
    /\ IF Propagates(env.mkdir_ok)
       THEN Exit(1) /\ UNCHANGED << dirs, results, attempts >>
       ELSE /\ dirs' = dirs \cup { Unwrap(base_dir) }
            /\ results' = [i \in 1..Len(valid_unicode_ranges) |-> None]
            /\ attempts' = [i \in 1..Len(valid_unicode_ranges) |-> 0]
            /\ pc' = "processing"
            /\ UNCHANGED exit_code
    /\ UNCHANGED << arguments, env, run, font, unicode_range, valid_unicode_ranges,
                    base_dir, files, image_paths >>

\* The first Err ends the batch, as collecting into a Result would
AbortsBatchOnErr(r) == r.ret # "ok"

\* Which results end the batch: only a panic unwinds through the iterator;
\* .filter_map(|x| x.ok()) drops every Err.
AbortsBatch(r) == r.ret = "panic"

\* The candidates a worker may take next: any not yet taken under rayon's
\* par_iter, the first not yet taken under iter.
Takeable ==
    LET left == { i \in 1..Len(valid_unicode_ranges) : attempts[i] = 0 }
    IN IF env.parallel THEN left
       ELSE { i \in left : \A j \in left : i <= j }

\* One call of the closure: create_glyph_img for candidate i, its file saved.
\* A save that fails is taken to fail before the file is created.
ProcessGlyph(i) ==
    /\ pc = "processing"
    /\ i \in Takeable
    /\ \E r \in { create_glyph_img(Unwrap(font), valid_unicode_ranges[i],
                                   arguments.img_size, arguments.color,
                                   Unwrap(base_dir),
                                   valid_unicode_ranges[i] \notin env.io_fail) } :
          /\ results' = [results EXCEPT ![i] = Some(r)]
          /\ attempts' = [attempts EXCEPT ![i] = @ + 1]
          /\ files' = IF r.ret = "ok"
                      THEN [p \in DOMAIN files \cup { Unwrap(r.image_path) } |->
                              IF p = Unwrap(r.image_path) THEN Unwrap(r.file)
                              ELSE files[p]]
                      ELSE files
          /\ IF AbortsBatch(r)
             THEN Exit(101)
             ELSE UNCHANGED << pc, exit_code >>
    /\ log' = Append(log, "glyph")
    /\ UNCHANGED << arguments, env, run, font, unicode_range, valid_unicode_ranges,
                    base_dir, dirs, image_paths >>

\* The Ok values among results, in candidate order
RECURSIVE OkPaths(_, _)
OkPaths(rs, n) ==
    IF n = 0 THEN << >>
    ELSE LET rest == OkPaths(rs, n - 1)
         IN IF IsSome(rs[n]) /\ Unwrap(rs[n]).ret = "ok"
            THEN Append(rest, Unwrap(Unwrap(rs[n]).image_path))
            ELSE rest

\* .collect() once every closure has returned, then Ok(())
Collect ==
    /\ pc = "processing"
    /\ Takeable = {}
    /\ \A i \in 1..Len(valid_unicode_ranges) : attempts[i] > 0
    /\ image_paths' = OkPaths(results, Len(valid_unicode_ranges))
    /\ log' = Append(log, "collect")
    /\ pc' = "done"
    /\ exit_code' = Some(0)
    /\ UNCHANGED << arguments, env, run, font, unicode_range, valid_unicode_ranges,
                    base_dir, dirs, files, results, attempts >>

\* The program is started again with the same arguments, font and output
\* directory; what is on disk stays.
Rerun ==
    /\ pc \in { "done", "exited" }
    /\ run < MaxRuns
    /\ run' = run + 1
    /\ pc' = "parse_args"
    /\ exit_code' = None
    /\ log' = << >>
    /\ font' = None
    /\ unicode_range' = None
    /\ valid_unicode_ranges' = << >>
    /\ base_dir' = None
    /\ results' = << >>
    /\ attempts' = << >>
    /\ image_paths' = << >>
    /\ UNCHANGED << arguments, env, dirs, files >>

Next ==
    \/ ParseArgs
    \/ ReadFont
    \/ ParseFont
    \/ SelectCodePoints
    \/ GetBaseName
    \/ CreateDirAll
    \/ \E i \in 1..Len(valid_unicode_ranges) : ProcessGlyph(i)
    \/ Collect
    \/ Rerun

Spec == Init /\ [][Next]_vars

\* Every closure that can run does, and the collect follows: the iterator
\* (rayon's pool or the plain loop) leaves no candidate untaken.
FairSpec ==
    /\ Init
    /\ [][Next]_vars
    /\ WF_vars(\E i \in 1..Len(valid_unicode_ranges) : ProcessGlyph(i))
    /\ WF_vars(Collect)

\* -------------------------------------------------------------------- claims
Attempted == { i \in DOMAIN results : IsSome(results[i]) }

Res(i) == Unwrap(results[i])

Selected == \E k \in 1..Len(log) : log[k] = "select"

\* Two big-endian UTF-16 code units, most significant first, back to a code
\* point; a zero leading unit is an absent high surrogate.
DecodeBeUtf16(hex_name) ==
    LET bytes == HexBytes(hex_name)
        lead == U8 * bytes[1] + bytes[2]
        trail == U8 * bytes[3] + bytes[4]
    IN IF lead = 0 THEN trail
       ELSE U16 + (lead - SurrogateLo) * 1024 + (trail - \hDC00)

\* C1: any two distinct scalar values for which create_glyph_img built a
\* path were given different paths.
C1_PathsCollisionFree ==
    \A i, j \in Attempted :
        ( /\ IsSome(Res(i).image_path) /\ IsSome(Res(j).image_path)
          /\ IsScalar(Res(i).unicode) /\ IsScalar(Res(j).unicode)
          /\ Res(i).unicode # Res(j).unicode )
        => Res(i).image_path # Res(j).image_path

\* C2: the hex identifier of every scalar value is 8 lowercase hex digits
\* that decode, as two big-endian UTF-16 units most significant first, to
\* the code point.
C2_HexRoundTrip ==
    \A i \in Attempted :
        (IsScalar(Res(i).unicode) /\ IsSome(Res(i).hex_name))
        => LET h == Unwrap(Res(i).hex_name)
           IN /\ Len(h) = 8
              /\ \A k \in 1..Len(h) : IsHexDigit(h[k])
              /\ DecodeBeUtf16(h) = Res(i).unicode

\* The larger side of a glyph's unit-scale box, in 1/UnitDen
UnitMaxDimension(glyph) ==
    LET b == Unwrap(glyph.bbox)
    IN Max(Abs(b.max.y - b.min.y), Abs(b.max.x - b.min.x))

DegenerateScale(glyph, img_size) ==
    \/ UnitMaxDimension(glyph) = 0
    \/ (img_size * UnitDen) \div UnitMaxDimension(glyph) <= 0

\* C3: for a defined glyph whose unit-scale box has a zero larger side, or
\* whose floor(img_size / maxDimension) is not positive, get_scale returns
\* an error and create_glyph_img stops there and writes no file.
C3_DegenerateScaleRejected ==
    \A i \in Attempted :
        LET glyph == FontGlyph(Unwrap(font), Res(i).unicode)
        IN (glyph.id # 0 /\ IsSome(glyph.bbox) /\ DegenerateScale(glyph, arguments.img_size))
           => /\ Res(i).ret \notin { "ok", "panic" }
              /\ Res(i).stages = << "glyph", "get_scale" >>
              /\ Res(i).file = None

OkResults == { i \in Attempted : Res(i).ret = "ok" }

EveryCandidateOnce == \A i \in 1..Len(valid_unicode_ranges) : attempts[i] = 1

PathsOfSuccesses ==
    /\ Len(image_paths) = Cardinality(OkResults)
    /\ \A k \in 1..Len(image_paths) :
           \E i \in OkResults : Unwrap(Res(i).image_path) = image_paths[k]
    /\ \A i \in OkResults :
           /\ \E k \in 1..Len(image_paths) : image_paths[k] = Unwrap(Res(i).image_path)
           /\ Unwrap(Res(i).image_path) \in DOMAIN files

\* C4: once the batch has started it reaches Done, whatever the per-glyph
\* outcomes; at Done every candidate was attempted exactly once and the
\* collected paths are those of the successes.
C4_BatchCompletes ==
    /\ [](pc = "done" => (EveryCandidateOnce /\ PathsOfSuccesses))
    /\ [](pc = "processing" => <>(pc = "done"))

C4_Witness ==
    /\ pc = "done"
    /\ Len(valid_unicode_ranges) = 3
    /\ Res(1).ret = "ImageError"
    /\ Res(2).ret = "General"
    /\ Res(3).ret = "ok"

\* C5: a code point whose glyph id is 0 gets the glyph lookup and nothing
\* else (no get_scale, no drawing, no save), writes no file and is not among
\* the collected paths; at Done every candidate has still been attempted.
C5_NotDefNeverRendered ==
    /\ \A i \in Attempted :
          FontGlyph(Unwrap(font), Res(i).unicode).id = 0
          => /\ Res(i).stages = << "glyph" >>
             /\ Res(i).ret = "GlyphNotDefined"
             /\ Res(i).image = None
             /\ Res(i).image_path = None
             /\ Res(i).file = None
    /\ pc = "done"
       => /\ EveryCandidateOnce
          /\ Len(image_paths) = Cardinality(OkResults)
          /\ \A i \in OkResults : FontGlyph(Unwrap(font), Res(i).unicode).id # 0

C5_Witness ==
    /\ pc = "done"
    /\ \E i, j \in Attempted :
          /\ i < j
          /\ FontGlyph(Unwrap(font), Res(i).unicode).id = 0
          /\ Res(j).ret = "ok"
          /\ Unwrap(Res(j).image_path) \in DOMAIN files

\* C6: once collected, the candidates are strictly ascending scalar values;
\* with --unicode-range they are exactly the scalar values from start to end.
C6_CandidatesAscendingScalars ==
    Selected =>
      /\ \A k \in 1..Len(valid_unicode_ranges) : IsScalar(valid_unicode_ranges[k])
      /\ \A k \in 1..(Len(valid_unicode_ranges) - 1) :
             valid_unicode_ranges[k] < valid_unicode_ranges[k + 1]
      /\ IsSome(unicode_range)
         => { valid_unicode_ranges[k] : k \in 1..Len(valid_unicode_ranges) }
            = { v \in (Unwrap(unicode_range).start)..(Unwrap(unicode_range).end) :
                  IsScalar(v) }

\* The output directory after the candidates 1..n were processed in order,
\* starting from an empty directory
RECURSIVE SequentialFiles(_)
SequentialFiles(n) ==
    IF n = 0 THEN << >>
    ELSE LET before == SequentialFiles(n - 1)
             unicode == valid_unicode_ranges[n]
             r == create_glyph_img(Unwrap(font), unicode, arguments.img_size,
                                   arguments.color, Unwrap(base_dir),
                                   unicode \notin env.io_fail)
         IN IF r.ret # "ok" THEN before
            ELSE [p \in DOMAIN before \cup { Unwrap(r.image_path) } |->
                    IF p = Unwrap(r.image_path) THEN Unwrap(r.file) ELSE before[p]]

\* C7: at Done, in the first run and in every later one, the output
\* directory is what the sequential run leaves, whatever the order the
\* workers took the candidates in, and every path holds the image of the
\* code point that was saved under it.
C7_DeterministicIdempotent ==
    pc = "done" =>
      /\ files = SequentialFiles(Len(valid_unicode_ranges))
      /\ \A i \in OkResults : files[Unwrap(Res(i).image_path)] = Unwrap(Res(i).file)

FatalStepFailed ==
    \/ /\ \E k \in 1..Len(log) : log[k] = "read_font"
       /\ ~(env.read_ok /\ IsSome(FileName(arguments.font_file)))
    \/ /\ \E k \in 1..Len(log) : log[k] = "parse_font"
       /\ ~env.parse_ok
    \/ /\ \E k \in 1..Len(log) : log[k] = "base_name"
       /\ ~IsSome(FileName(arguments.font_file))
    \/ /\ \E k \in 1..Len(log) : log[k] = "create_dir"
       /\ ~env.mkdir_ok

\* C8: glyphs are processed only after the font was read, the font parsed,
\* the base name derived and the directory created, in that order and each
\* successfully; a failure of one of them ends main with exit code 1 and no
\* glyph attempted or written; when none fails and the batch is through,
\* main exits with 0.
C8_FatalBeforeOutput ==
    /\ (pc \in { "processing", "done" } \/ Attempted # {})
       => /\ SubSeq(log, 2, 6) = << "read_font", "parse_font", "select",
                                    "base_name", "create_dir" >>
          /\ env.read_ok /\ env.parse_ok /\ env.mkdir_ok
          /\ IsSome(font) /\ IsSome(base_dir) /\ Unwrap(base_dir) \in dirs
    /\ FatalStepFailed
       => /\ pc = "exited" /\ exit_code = Some(1)
          /\ Attempted = {} /\ files = << >>
    /\ exit_code = Some(1) => FatalStepFailed
    /\ pc = "done" => exit_code = Some(0)

C8_Witness ==
    /\ pc = "exited" /\ exit_code = Some(1)
    /\ log = << "parse_args", "read_font", "parse_font", "select",
                "base_name", "create_dir" >>
    /\ IsSome(font) /\ Len(valid_unicode_ranges) > 0
    /\ files = << >>

\* C9: every image create_glyph_img allocates is square, its side the
\* larger of the height |max.y - min.y| and the width max.x - min.x of the
\* pixel bounding box at the computed scale.
C9_CanvasSquare ==
    \A i \in Attempted :
        IsSome(Res(i).image)
        => LET bb == Unwrap(Res(i).bounding_box)
               image == Unwrap(Res(i).image)
               side == Max(Abs(bb.max.y - bb.min.y), bb.max.x - bb.min.x)
           IN /\ Some(bb) = PixelBoundingBox(FontGlyph(Unwrap(font), Res(i).unicode),
                                             Unwrap(Res(i).scale))
              /\ image.width = side
              /\ image.height = side

C9_Witness ==
    \E i \in Attempted :
        /\ IsSome(Res(i).image)
        /\ Unwrap(Res(i).scale).kind = "finite" /\ Unwrap(Res(i).scale).val > 1
        /\ LET bb == Unwrap(Res(i).bounding_box)
           IN /\ Abs(bb.max.y - bb.min.y) # bb.max.x - bb.min.x
              /\ Unwrap(Res(i).image).width = Abs(bb.max.y - bb.min.y)
              /\ Unwrap(Res(i).image).height = Abs(bb.max.y - bb.min.y)

\* C10: every pixel of the bounding box is written at (x + xOffset,
\* y + yOffset) with the offsets floor((side - width) / 2) and
\* floor((side - height) / 2), and every written pixel lies in
\* [0, side) x [0, side): put_pixel never panics.
C10_WritesInsideCanvas ==
    \A i \in Attempted :
        IsSome(Res(i).bounding_box)
        => LET bb == Unwrap(Res(i).bounding_box)
               height == Abs(bb.max.y - bb.min.y)
               width == bb.max.x - bb.min.x
               side == Max(height, width)
           IN /\ width >= 0 /\ height >= 0
              /\ Res(i).ret # "panic"
              /\ \A x \in 0..(width - 1), y \in 0..(height - 1) :
                    [x |-> x + (side - width) \div 2,
                     y |-> y + (side - height) \div 2] \in Res(i).writes
              /\ \A p \in Res(i).writes :
                    p.x >= 0 /\ p.x < side /\ p.y >= 0 /\ p.y < side

C10_Witness ==
    \E i \in Attempted :
        /\ IsSome(Res(i).bounding_box)
        /\ LET bb == Unwrap(Res(i).bounding_box)
           IN Abs(bb.max.y - bb.min.y) > bb.max.x - bb.min.x + 1
        /\ \E p \in Res(i).writes : p.x > 0 /\ p.y = 0
        /\ \A p \in Res(i).writes : p.x > 0

====
